---- MODULE Spec2Model ----
(***************************************************************************)
(* Match usefulness (exhaustiveness and reachability) as computed by       *)
(* crates/hir_ty/src/diagnostics/pattern/usefulness.rs.                    *)
(*                                                                         *)
(* A PatId is modelled by the Pat it indexes in the pattern arena: the     *)
(* arena is append-only and the algorithm only ever dereferences an id,    *)
(* so two ids are told apart only through the patterns they hold.          *)
(* The constructor catalogue (deconstruct_pat: Constructor, Fields,        *)
(* SplitWildcard) is not part of the source file; it is modelled from its  *)
(* documented interface for closed algebraic types.                        *)
(***************************************************************************)
EXTENDS Naturals, Sequences, FiniteSets, TLC

VARIABLES
    ty,              \* type of the scrutinee (cx.infer[cx.match_expr])
    arms,            \* the arms handed to the driver so far, in source order
    matrix,          \* compute_match_usefulness: `matrix`
    arm_usefulness,  \* compute_match_usefulness: `arm_usefulness` (Reachability per arm)
    witnesses,       \* UsefulnessReport.non_exhaustiveness_witnesses
    last_usefulness, \* the driver's `usefulness` of the arm tested last
    pc,              \* position of the driver: "arms", "done"; the operation applied last in the operator specifications
    sets,            \* operands handed to SubPatSet::union / Usefulness::merge
    merged,          \* results of the unions
    wit_ctor,        \* the constructor a witness is rebuilt for
    wit,             \* a Witness (patterns in reverse order of construction)
    rebuilt,         \* the Witness after Witness::apply_constructor
    row              \* a PatStack: the row the sets are about, the row decomposed, the row pushed

vars == <<ty, arms, matrix, arm_usefulness, witnesses, last_usefulness, pc,
          sets, merged, wit_ctor, wit, rebuilt, row>>

----------------------------------------------------------------------------
(* Bounds of the model *)

\* Number of arms of the match expression.
MaxArms == 2

\* Number of rows of the matrices the operands of a union are computed against.
MaxRows == 2

\* Number of patterns a witness holds before the sub-witnesses of the
\* constructor it is rebuilt for.
MaxPrefix == 1

\* Number of rows a matrix holds at most when one more row is pushed to it.
MaxPushes == 2

\* Largest index of an entry of the Seq sets handed to unspecialize.
MaxIndex == 3

\* Number of operations applied in a row to reachability sets.
MaxOps == 3

\* Largest number of alternatives of the or-patterns a set is unsplit for.
MaxAlts == 2

----------------------------------------------------------------------------
(* Types and patterns (Pat, PatKind) *)

\* The closed types of the model: a two-valued enum, a three-valued enum and
\* a tuple of two two-valued fields.
Types == {"Bool", "Tri", "Pair"}

\* Further types a witness is rebuilt for: an option of a two-valued field and
\* a struct of three fields of different types.
WitnessTypes == Types \cup {"Opt", "Rec"}

\* Constructors of a type, in declaration order.
TyCtors(t) ==
    CASE t = "Bool" -> <<"T", "F">>
      [] t = "Tri"  -> <<"A", "B", "C">>
      [] t = "Pair" -> <<"Single">>
      [] t = "Opt"  -> <<"None", "Some">>
      [] t = "Rec"  -> <<"Single">>

\* Field types of a constructor of type t.
CtorFieldTys(t, c) ==
    CASE t = "Pair" /\ c = "Single" -> <<"Bool", "Bool">>
      [] t = "Opt" /\ c = "Some"    -> <<"Bool">>
      [] t = "Rec" /\ c = "Single"  -> <<"Tri", "Pair", "Bool">>
      [] OTHER -> <<>>

\* PatKind::Wild
Wild(t) == [kind |-> "Wild", ctor |-> "_", args |-> <<>>, ty |-> t]

\* PatKind::Variant / PatKind::Leaf: a constructor applied to sub-patterns
Ctor(t, c, ps) == [kind |-> "Ctor", ctor |-> c, args |-> ps, ty |-> t]

\* PatKind::Or { pats }
Or(t, ps) == [kind |-> "Or", ctor |-> "|", args |-> ps, ty |-> t]

\* PatIdExt::is_or_pat
is_or_pat(pat) == pat.kind = "Or"

\* PatIdExt::expand_or_pat: the inner `expand`, with its accumulator `vec`;
\* expand_each is the `for pat in pats` loop from position i on.
RECURSIVE expand(_, _), expand_each(_, _, _)
expand(pat, vec) ==
    IF pat.kind = "Or" THEN expand_each(pat.args, 1, vec) ELSE Append(vec, pat)

expand_each(pats, i, vec) ==
    IF i > Len(pats) THEN vec ELSE expand_each(pats, i + 1, expand(pats[i], vec))

expand_or_pat(pat) == expand(pat, <<>>)

----------------------------------------------------------------------------
(* Constructor catalogue: deconstruct_pat (Constructor, Fields, SplitWildcard) *)

\* Constructor::from_pat: the head constructor of a non-or pattern.
Constructor_from_pat(pat) ==
    IF pat.kind = "Wild" THEN "Wildcard" ELSE pat.ctor

\* Constructor::is_covered_by: whether `other` covers `ctor`.
is_covered_by(ctor, other) ==
    CASE other = "Wildcard" -> TRUE
      [] ctor \in {"Missing", "Wildcard"} -> FALSE
      [] OTHER -> ctor = other

\* Fields::wildcards: one wildcard per field of the constructor.
Fields_wildcards(t, ctor) ==
    LET tys == IF ctor \in {"Missing", "Wildcard"} THEN <<>> ELSE CtorFieldTys(t, ctor)
    IN  [i \in 1..Len(tys) |-> Wild(tys[i])]

\* Fields::replace_with_pattern_arguments(..).into_patterns(): the arguments of
\* `pat` against the template `fields`; a wildcard keeps the template.
replace_with_pattern_arguments(fields, pat) ==
    IF pat.kind = "Ctor" THEN [i \in 1..Len(fields) |-> pat.args[i]] ELSE fields

\* Fields::replace_fields: the template's fields replaced by `pats`, in order.
replace_fields(fields, pats) == [i \in 1..Len(fields) |-> pats[i]]

\* Fields::apply: the pattern of constructor `ctor` over `fields`.
Fields_apply(fields, t, ctor) ==
    IF ctor \in {"Wildcard", "Missing"} THEN Wild(t) ELSE Ctor(t, ctor, fields)

\* The constructors of a sequence, without the wildcards.
NonWild(ctors) == {ctors[i] : i \in 1..Len(ctors)} \ {"Wildcard"}

\* SplitWildcard::iter_missing: the constructors of the type no row's head shows.
iter_missing(t, matrix_ctors) ==
    SelectSeq(TyCtors(t), LAMBDA c : c \notin NonWild(matrix_ctors))

\* Constructor::split: a wildcard splits into the constructors present in the
\* column plus, when some are absent, the one pseudo-constructor Missing; any
\* other constructor splits into itself.
split(t, ctor, matrix_ctors) ==
    IF ctor = "Wildcard"
    THEN SelectSeq(TyCtors(t), LAMBDA c : c \in NonWild(matrix_ctors))
         \o (IF Len(iter_missing(t, matrix_ctors)) > 0 THEN <<"Missing">> ELSE <<>>)
    ELSE <<ctor>>

----------------------------------------------------------------------------
(* PatStack: a row, as the sequence of its patterns *)

\* PatStack::from_pattern
from_pattern(pat) == <<pat>>

\* PatStack::head
head(r) == r[1]

\* PatStack::head_ctor
head_ctor(r) == Constructor_from_pat(head(r))

\* The rest of a row, `self.pats[1..]`.
rest(r) == SubSeq(r, 2, Len(r))

\* PatStack::expand_or_pat: one row per leaf of the head, each with the tail.
PatStack_expand_or_pat(r) ==
    LET leaves == expand_or_pat(head(r))
    IN  [i \in 1..Len(leaves) |-> <<leaves[i]>> \o rest(r)]

\* pop_head_constructor giving the new fields without the rest of the row.
pop_head_constructor_no_rest(r, ctor_wild_subpatterns) ==
    replace_with_pattern_arguments(ctor_wild_subpatterns, head(r))

\* PatStack::pop_head_constructor
pop_head_constructor(r, ctor_wild_subpatterns) ==
    LET new_fields == replace_with_pattern_arguments(ctor_wild_subpatterns, head(r))
    IN  new_fields \o rest(r)

----------------------------------------------------------------------------
(* Matrix: the sequence of its rows *)

\* Matrix::empty
Matrix_empty == <<>>

\* Matrix::column_count (0 stands for None)
column_count(m) == IF Len(m) = 0 THEN 0 ELSE Len(m[1])

\* push storing only the rows that come out of an or-pattern head.
push_or_only(m, r) ==
    IF Len(r) > 0 /\ is_or_pat(head(r)) THEN m \o PatStack_expand_or_pat(r)
    ELSE m

\* push storing every row as it is given.
push_no_expand(m, r) == Append(m, r)

\* Matrix::push
push(m, r) ==
    IF Len(r) > 0 /\ is_or_pat(head(r)) THEN m \o PatStack_expand_or_pat(r)
    ELSE Append(m, r)

\* Matrix::heads
heads(m) == [i \in 1..Len(m) |-> head(m[i])]

\* Matrix::head_ctors
head_ctors(m) == [i \in 1..Len(m) |-> head_ctor(m[i])]

\* Matrix::from_iter
RECURSIVE from_iter_from(_, _, _)
from_iter_from(rows, i, m) ==
    IF i > Len(rows) THEN m ELSE from_iter_from(rows, i + 1, push(m, rows[i]))

from_iter(rows) == from_iter_from(rows, 1, Matrix_empty)

\* specialize_constructor keeping every row, covered or not.
specialize_constructor_no_filter(m, ctor, ctor_wild_subpatterns) ==
    from_iter([i \in 1..Len(m) |-> pop_head_constructor(m[i], ctor_wild_subpatterns)])

\* Matrix::specialize_constructor
specialize_constructor(m, ctor, ctor_wild_subpatterns) ==
    LET kept == SelectSeq(m, LAMBDA r : is_covered_by(ctor, head_ctor(r)))
    IN  from_iter([i \in 1..Len(kept) |-> pop_head_constructor(kept[i], ctor_wild_subpatterns)])

----------------------------------------------------------------------------
(* SubPatSet *)

\* Stands for the `pat` of a set that is no Alt.
NoPat == [kind |-> "None", ctor |-> "", args |-> <<>>, ty |-> ""]

\* FxHashMap::default()
EmptyMap == [i \in {} |-> 0]

\* SubPatSet::Empty, SubPatSet::empty()
Empty == [tag |-> "Empty", subpats |-> EmptyMap, alt_count |-> 0, pat |-> NoPat]

\* SubPatSet::Full, SubPatSet::full()
Full == [tag |-> "Full", subpats |-> EmptyMap, alt_count |-> 0, pat |-> NoPat]

\* SubPatSet::Seq { subpats }
SeqSet(subpats) == [tag |-> "Seq", subpats |-> subpats, alt_count |-> 0, pat |-> NoPat]

\* SubPatSet::Alt { subpats, alt_count, pat }
AltSet(subpats, alt_count, pat) ==
    [tag |-> "Alt", subpats |-> subpats, alt_count |-> alt_count, pat |-> pat]

\* The outcome of panic!("bug") in an operation on sets.
Bug == [tag |-> "Bug", subpats |-> EmptyMap, alt_count |-> 0, pat |-> NoPat]

\* FxHashMap::get(&i).unwrap_or(default)
get_or(subpats, i, default) == IF i \in DOMAIN subpats THEN subpats[i] ELSE default

\* SubPatSet::is_empty
RECURSIVE is_empty(_)
is_empty(s) ==
    CASE s.tag = "Empty" -> TRUE
      [] s.tag = "Full"  -> FALSE
      [] s.tag = "Seq"   -> \E i \in DOMAIN s.subpats : is_empty(s.subpats[i])
      [] s.tag = "Alt"   -> \A i \in DOMAIN s.subpats : is_empty(s.subpats[i])
      [] OTHER -> FALSE

\* SubPatSet::is_full
RECURSIVE is_full(_)
\* is_full never answering true for an Alt.
is_full_no_alt(s) ==
    CASE s.tag = "Empty" -> FALSE
      [] s.tag = "Full"  -> TRUE
      [] s.tag = "Seq"   -> \A i \in DOMAIN s.subpats : is_full(s.subpats[i])
      [] OTHER -> FALSE

is_full(s) ==
    CASE s.tag = "Empty" -> FALSE
      [] s.tag = "Full"  -> TRUE
      [] s.tag = "Seq"   -> \A i \in DOMAIN s.subpats : is_full(s.subpats[i])
      [] s.tag = "Alt"   -> /\ Cardinality(DOMAIN s.subpats) = s.alt_count
                            /\ \A i \in DOMAIN s.subpats : is_full(s.subpats[i])
      [] OTHER -> FALSE

\* SubPatSet::union, returning the new value of `self`.
RECURSIVE union(_, _)
\* union whose Alt arm forgets the entries left in `o_set`.
union_no_extend(self, other) ==
    IF is_full(self) \/ is_empty(other) THEN self
    ELSE IF is_empty(self) THEN other
    ELSE IF is_full(other) THEN Full
    ELSE
      LET u ==
            CASE self.tag = "Seq" /\ other.tag = "Seq" ->
                   LET un(i) == union(self.subpats[i], get_or(other.subpats, i, Full))
                       keep  == {i \in DOMAIN self.subpats : ~is_full(un(i))}
                   IN  SeqSet([i \in keep |-> un(i)])
              [] self.tag = "Alt" /\ other.tag = "Alt" ->
                   LET un(i) == union(self.subpats[i], get_or(other.subpats, i, Empty))
                       keep  == {i \in DOMAIN self.subpats : ~is_empty(un(i))}
                   IN  AltSet([i \in keep |-> un(i)], self.alt_count, self.pat)
              [] OTHER -> Bug
      IN  IF is_full(u) THEN Full ELSE u

union(self, other) ==
    IF is_full(self) \/ is_empty(other) THEN self
    ELSE IF is_empty(self) THEN other
    ELSE IF is_full(other) THEN Full
    ELSE
      LET u ==
            CASE self.tag = "Seq" /\ other.tag = "Seq" ->
                   LET un(i) == union(self.subpats[i], get_or(other.subpats, i, Full))
                       keep  == {i \in DOMAIN self.subpats : ~is_full(un(i))}
                   IN  SeqSet([i \in keep |-> un(i)])
              [] self.tag = "Alt" /\ other.tag = "Alt" ->
                   LET un(i) == union(self.subpats[i], get_or(other.subpats, i, Empty))
                       keep  == {i \in DOMAIN self.subpats : ~is_empty(un(i))}
                       extra == DOMAIN other.subpats \ DOMAIN self.subpats
                   IN  AltSet([i \in keep \cup extra |->
                                 IF i \in keep THEN un(i) ELSE other.subpats[i]],
                              self.alt_count, self.pat)
              [] OTHER -> Bug
      IN  IF is_full(u) THEN Full ELSE u

\* Stands for the unreachable pattern pushed by a walk that panicked.
BugPat == [kind |-> "Bug", ctor |-> "", args |-> <<>>, ty |-> ""]

\* The smallest key of a non-empty key set.
MinKey(keys) == CHOOSE i \in keys : \A j \in keys : i <= j

\* list_unreachable_subpatterns: the inner fill_subpats, with its accumulator
\* `unreachable_pats`. fill_seq walks the entries of a Seq (by increasing
\* index), fill_alt the loop `for i in 0..*alt_count` from i on.
RECURSIVE fill_subpats(_, _), fill_seq(_, _, _), fill_alt(_, _, _, _)
\* fill_alt walking into every alternative, empty or not.
fill_alt_no_empty_check(set, expanded, i, unreachable_pats) ==
    IF i >= set.alt_count THEN unreachable_pats
    ELSE fill_alt(set, expanded, i + 1,
                  fill_subpats(get_or(set.subpats, i, Empty), unreachable_pats))

fill_subpats(set, unreachable_pats) ==
    CASE set.tag = "Empty" -> Append(unreachable_pats, BugPat)
      [] set.tag = "Full"  -> unreachable_pats
      [] set.tag = "Seq"   -> fill_seq(set.subpats, DOMAIN set.subpats, unreachable_pats)
      [] set.tag = "Alt"   -> fill_alt(set, expand_or_pat(set.pat), 0, unreachable_pats)
      [] OTHER -> Append(unreachable_pats, BugPat)

fill_seq(subpats, keys, unreachable_pats) ==
    IF keys = {} THEN unreachable_pats
    ELSE LET i == MinKey(keys)
         IN  fill_seq(subpats, keys \ {i}, fill_subpats(subpats[i], unreachable_pats))

fill_alt(set, expanded, i, unreachable_pats) ==
    IF i >= set.alt_count THEN unreachable_pats
    ELSE LET sub_set == get_or(set.subpats, i, Empty)
         IN  fill_alt(set, expanded, i + 1,
                      IF is_empty(sub_set)
                      THEN Append(unreachable_pats,
                                  IF i + 1 <= Len(expanded) THEN expanded[i + 1] ELSE BugPat)
                      ELSE fill_subpats(sub_set, unreachable_pats))

\* SubPatSet::list_unreachable_subpatterns: `some` is FALSE for None.
list_unreachable_subpatterns(s) ==
    IF is_empty(s) THEN [some |-> FALSE, pats |-> <<>>]
    ELSE IF is_full(s) THEN [some |-> TRUE, pats |-> <<>>]
    ELSE [some |-> TRUE, pats |-> fill_subpats(s, <<>>)]

\* unspecialize dropping the entries of the first `arity` indices.
unspecialize_no_first_col(s, arity) ==
    CASE s.tag = "Full"  -> Full
      [] s.tag = "Empty" -> Empty
      [] s.tag = "Seq"   ->
           LET first_col == {i \in DOMAIN s.subpats : i < arity}
               shifted   == {i - arity + 1 : i \in DOMAIN s.subpats \ first_col}
           IN  SeqSet([j \in shifted |-> s.subpats[j + arity - 1]])
      [] OTHER -> Bug

\* SubPatSet::unspecialize
unspecialize(s, arity) ==
    CASE s.tag = "Full"  -> Full
      [] s.tag = "Empty" -> Empty
      [] s.tag = "Seq"   ->
           LET first_col == {i \in DOMAIN s.subpats : i < arity}
               shifted   == {i - arity + 1 : i \in DOMAIN s.subpats \ first_col}
               new_subpats_first_col == [i \in first_col |-> s.subpats[i]]
           IN  SeqSet([j \in shifted \cup (IF first_col # {} THEN {0} ELSE {}) |->
                         IF j = 0 /\ first_col # {} THEN SeqSet(new_subpats_first_col)
                         ELSE s.subpats[j + arity - 1]])
      [] OTHER -> Bug

\* unsplit_or_pat filing every leaf under alternative 0.
unsplit_or_pat_first_alt(s, alt_id, alt_count, pat) ==
    IF is_empty(s) THEN Empty
    ELSE IF s.tag \notin {"Full", "Seq"} THEN Bug
    ELSE
      LET set_first_col == IF s.tag = "Full" THEN Full ELSE get_or(s.subpats, 0, Full)
          alt == AltSet([i \in {0} |-> set_first_col], alt_count, pat)
          others == IF s.tag = "Full" THEN {} ELSE DOMAIN s.subpats \ {0}
      IN  SeqSet([i \in others \cup {0} |-> IF i = 0 THEN alt ELSE s.subpats[i]])

\* unsplit_or_pat returning the Alt itself instead of the row that holds it.
unsplit_or_pat_bare_alt(s, alt_id, alt_count, pat) ==
    IF is_empty(s) THEN Empty
    ELSE IF s.tag \notin {"Full", "Seq"} THEN Bug
    ELSE AltSet([i \in {alt_id} |->
                   IF s.tag = "Full" THEN Full ELSE get_or(s.subpats, 0, Full)],
                alt_count, pat)

\* SubPatSet::unsplit_or_pat
unsplit_or_pat(s, alt_id, alt_count, pat) ==
    IF is_empty(s) THEN Empty
    ELSE IF s.tag \notin {"Full", "Seq"} THEN Bug
    ELSE
      LET set_first_col == IF s.tag = "Full" THEN Full ELSE get_or(s.subpats, 0, Full)
          alt == AltSet([i \in {alt_id} |-> set_first_col], alt_count, pat)
          others == IF s.tag = "Full" THEN {} ELSE DOMAIN s.subpats \ {0}
      IN  SeqSet([i \in others \cup {0} |-> IF i = 0 THEN alt ELSE s.subpats[i]])

----------------------------------------------------------------------------
(* Witness: the sequence of its patterns, last column first *)

\* The patterns of a sequence in reverse order, `.rev()`.
Rev(ps) == [i \in 1..Len(ps) |-> ps[Len(ps) + 1 - i]]

\* Witness::apply_constructor handing the drained patterns over as drained.
Witness_apply_constructor_no_rev(witness, t, ctor, ctor_wild_subpatterns) ==
    LET len   == Len(witness)
        arity == Len(ctor_wild_subpatterns)
        pats  == SubSeq(witness, len - arity + 1, len)
        pat   == Fields_apply(replace_fields(ctor_wild_subpatterns, pats), t, ctor)
    IN  Append(SubSeq(witness, 1, len - arity), pat)

\* Witness::apply_constructor leaving the sub-witnesses on the witness.
Witness_apply_constructor_no_drain(witness, t, ctor, ctor_wild_subpatterns) ==
    LET len   == Len(witness)
        arity == Len(ctor_wild_subpatterns)
        pats  == Rev(SubSeq(witness, len - arity + 1, len))
        pat   == Fields_apply(replace_fields(ctor_wild_subpatterns, pats), t, ctor)
    IN  Append(witness, pat)

\* Witness::apply_constructor
Witness_apply_constructor(witness, t, ctor, ctor_wild_subpatterns) ==
    LET len   == Len(witness)
        arity == Len(ctor_wild_subpatterns)
        pats  == Rev(SubSeq(witness, len - arity + 1, len))
        pat   == Fields_apply(replace_fields(ctor_wild_subpatterns, pats), t, ctor)
    IN  Append(SubSeq(witness, 1, len - arity), pat)

\* Witness::single_pattern
single_pattern(witness) == witness[1]

----------------------------------------------------------------------------
(* Usefulness *)

\* Usefulness::NoWitnesses(SubPatSet)
NoWitnesses(subpats) == [variant |-> "NoWitnesses", subpats |-> subpats, witnesses |-> <<>>]

\* Usefulness::WithWitnesses(Vec<Witness>)
WithWitnesses(ws) == [variant |-> "WithWitnesses", subpats |-> Empty, witnesses |-> ws]

\* new_useful starting witness mode from no witness at all.
new_useful_no_witness(preference) ==
    IF preference = "ConstructWitness" THEN WithWitnesses(<<>>) ELSE NoWitnesses(Full)

\* Usefulness::new_useful
new_useful(preference) ==
    IF preference = "ConstructWitness" THEN WithWitnesses(<< <<>> >>) ELSE NoWitnesses(Full)

\* Usefulness::new_not_useful
new_not_useful(preference) ==
    IF preference = "ConstructWitness" THEN WithWitnesses(<<>>) ELSE NoWitnesses(Empty)

\* Usefulness::extend, returning the new value of `self`.
extend(self, other) ==
    IF self.variant = "WithWitnesses" /\ other.variant = "WithWitnesses"
    THEN IF Len(other.witnesses) = 0 THEN self
         ELSE IF Len(self.witnesses) = 0 THEN WithWitnesses(other.witnesses)
         ELSE WithWitnesses(self.witnesses \o other.witnesses)
    ELSE IF self.variant = "NoWitnesses" /\ other.variant = "NoWitnesses"
    THEN NoWitnesses(union(self.subpats, other.subpats))
    ELSE NoWitnesses(Bug)

\* Usefulness::merge: the loop `for u in usefulnesses` from position i on, with
\* the accumulator `ret`.
RECURSIVE merge_from(_, _, _)
merge_from(usefulnesses, i, ret) ==
    IF i > Len(usefulnesses) THEN ret
    ELSE LET ret2 == extend(ret, usefulnesses[i])
         IN  IF ret2.variant = "NoWitnesses" /\ is_full(ret2.subpats) THEN ret2
             ELSE merge_from(usefulnesses, i + 1, ret2)

merge(pref, usefulnesses) == merge_from(usefulnesses, 1, new_not_useful(pref))

\* Usefulness::unsplit_or_pat
Usefulness_unsplit_or_pat(u, alt_id, alt_count, pat) ==
    IF u.variant = "NoWitnesses"
    THEN NoWitnesses(unsplit_or_pat(u.subpats, alt_id, alt_count, pat))
    ELSE NoWitnesses(Bug)

\* apply_constructor building, for Missing, a pattern of every constructor of
\* the type, present in the matrix or not.
apply_constructor_all_ctors(u, t, m, ctor, ctor_wild_subpatterns) ==
    IF u.variant = "WithWitnesses"
    THEN IF Len(u.witnesses) = 0 THEN u
         ELSE IF ctor = "Missing"
         THEN LET missing == TyCtors(t)
                  new_patterns == [j \in 1..Len(missing) |->
                                     Fields_apply(Fields_wildcards(t, missing[j]), t, missing[j])]
                  n == Len(new_patterns)
              IN  WithWitnesses([k \in 1..(Len(u.witnesses) * n) |->
                                   Append(u.witnesses[((k - 1) \div n) + 1],
                                          new_patterns[((k - 1) % n) + 1])])
         ELSE WithWitnesses([k \in 1..Len(u.witnesses) |->
                               Witness_apply_constructor(u.witnesses[k], t, ctor,
                                                         ctor_wild_subpatterns)])
    ELSE NoWitnesses(unspecialize(u.subpats, Len(ctor_wild_subpatterns)))

\* Usefulness::apply_constructor
apply_constructor(u, t, m, ctor, ctor_wild_subpatterns) ==
    IF u.variant = "WithWitnesses"
    THEN IF Len(u.witnesses) = 0 THEN u
         ELSE IF ctor = "Missing"
         THEN LET missing == iter_missing(t, head_ctors(m))
                  new_patterns == [j \in 1..Len(missing) |->
                                     Fields_apply(Fields_wildcards(t, missing[j]), t, missing[j])]
                  n == Len(new_patterns)
              IN  WithWitnesses([k \in 1..(Len(u.witnesses) * n) |->
                                   Append(u.witnesses[((k - 1) \div n) + 1],
                                          new_patterns[((k - 1) % n) + 1])])
         ELSE WithWitnesses([k \in 1..Len(u.witnesses) |->
                               Witness_apply_constructor(u.witnesses[k], t, ctor,
                                                         ctor_wild_subpatterns)])
    ELSE NoWitnesses(unspecialize(u.subpats, Len(ctor_wild_subpatterns)))

----------------------------------------------------------------------------
(* is_useful *)

\* is_useful. or_usefulnesses is the closure mapped over the leaves `vs` of an
\* or-pattern head from leaf i on, with the local `matrix` the earlier leaves
\* were pushed to; ctor_usefulnesses is the closure mapped over `split_ctors`.
RECURSIVE is_useful(_, _, _, _, _), or_usefulnesses(_, _, _, _, _, _),
          ctor_usefulnesses(_, _, _, _, _, _, _)
\* or_usefulnesses numbering the alternatives from 1.
or_usefulnesses_from_one(m, vs, i, witness_preference, is_under_guard, v_head) ==
    IF i > Len(vs) THEN <<>>
    ELSE LET usefulness == is_useful(m, vs[i], witness_preference, is_under_guard, FALSE)
             m2 == IF ~is_under_guard THEN push(m, vs[i]) ELSE m
         IN  <<Usefulness_unsplit_or_pat(usefulness, i, Len(vs), v_head)>>
             \o or_usefulnesses(m2, vs, i + 1, witness_preference, is_under_guard, v_head)

\* or_usefulnesses testing every leaf against the incoming matrix alone.
or_usefulnesses_no_push(m, vs, i, witness_preference, is_under_guard, v_head) ==
    IF i > Len(vs) THEN <<>>
    ELSE LET usefulness == is_useful(m, vs[i], witness_preference, is_under_guard, FALSE)
         IN  <<Usefulness_unsplit_or_pat(usefulness, i - 1, Len(vs), v_head)>>
             \o or_usefulnesses(m, vs, i + 1, witness_preference, is_under_guard, v_head)

or_usefulnesses(m, vs, i, witness_preference, is_under_guard, v_head) ==
    IF i > Len(vs) THEN <<>>
    ELSE LET usefulness == is_useful(m, vs[i], witness_preference, is_under_guard, FALSE)
             m2 == IF ~is_under_guard THEN push(m, vs[i]) ELSE m
         IN  <<Usefulness_unsplit_or_pat(usefulness, i - 1, Len(vs), v_head)>>
             \o or_usefulnesses(m2, vs, i + 1, witness_preference, is_under_guard, v_head)

ctor_usefulnesses(start_matrix, v, t, split_ctors, i, witness_preference, is_under_guard) ==
    IF i > Len(split_ctors) THEN <<>>
    ELSE LET ctor == split_ctors[i]
             ctor_wild_subpatterns == Fields_wildcards(t, ctor)
             spec_matrix == specialize_constructor(start_matrix, ctor, ctor_wild_subpatterns)
             v2 == pop_head_constructor(v, ctor_wild_subpatterns)
             usefulness == is_useful(spec_matrix, v2, witness_preference, is_under_guard, FALSE)
         IN  <<apply_constructor(usefulness, t, start_matrix, ctor, ctor_wild_subpatterns)>>
             \o ctor_usefulnesses(start_matrix, v, t, split_ctors, i + 1,
                                  witness_preference, is_under_guard)

is_useful(m, v, witness_preference, is_under_guard, is_top_level) ==
    IF Len(v) = 0
    THEN IF Len(m) = 0 THEN new_useful(witness_preference)
         ELSE new_not_useful(witness_preference)
    ELSE LET t == IF Len(m) > 0 THEN heads(m)[1].ty ELSE head(v).ty
         IN  IF is_or_pat(head(v))
             THEN merge(witness_preference,
                        or_usefulnesses(m, PatStack_expand_or_pat(v), 1,
                                        witness_preference, is_under_guard, head(v)))
             ELSE merge(witness_preference,
                        ctor_usefulnesses(m, v, t, split(t, head_ctor(v), head_ctors(m)), 1,
                                          witness_preference, is_under_guard))

----------------------------------------------------------------------------
(* The invocations of is_useful under one invocation *)

\* One invocation of is_useful: its matrix, its row and its flags.
Call(m, v, witness_preference, is_under_guard) ==
    [matrix |-> m, v |-> v, witness_preference |-> witness_preference,
     is_under_guard |-> is_under_guard]

\* The early return of Usefulness::merge: the accumulator is a full set.
merge_stops(ret) == ret.variant = "NoWitnesses" /\ is_full(ret.subpats)

\* Whether Usefulness::merge asks the lazy iterator `usefulnesses` for its
\* element i: it did not return on an element before it.
merge_pulls(pref, usefulnesses, i) ==
    \A k \in 1..(i - 1) : ~merge_stops(merge(pref, SubSeq(usefulnesses, 1, k)))

\* The local `matrix` of the or-pattern branch when leaf i is tested: the
\* incoming matrix with the leaves before i pushed, unless under a guard.
RECURSIVE or_matrix(_, _, _, _)
or_matrix(m, vs, i, is_under_guard) ==
    IF i <= 1 THEN m
    ELSE IF ~is_under_guard THEN push(or_matrix(m, vs, i - 1, is_under_guard), vs[i - 1])
    ELSE or_matrix(m, vs, i - 1, is_under_guard)

\* The invocations of is_useful made by is_useful(m, v, ..), itself included.
RECURSIVE is_useful_calls(_, _, _, _)
is_useful_calls(m, v, witness_preference, is_under_guard) ==
    {Call(m, v, witness_preference, is_under_guard)} \cup
    IF Len(v) = 0 THEN {}
    ELSE IF is_or_pat(head(v))
    THEN LET vs == PatStack_expand_or_pat(v)
             us == or_usefulnesses(m, vs, 1, witness_preference, is_under_guard, head(v))
         IN  UNION {IF merge_pulls(witness_preference, us, i)
                    THEN is_useful_calls(or_matrix(m, vs, i, is_under_guard), vs[i],
                                         witness_preference, is_under_guard)
                    ELSE {} : i \in 1..Len(vs)}
    ELSE LET t == IF Len(m) > 0 THEN heads(m)[1].ty ELSE head(v).ty
             split_ctors == split(t, head_ctor(v), head_ctors(m))
             us == ctor_usefulnesses(m, v, t, split_ctors, 1, witness_preference, is_under_guard)
         IN  UNION {IF merge_pulls(witness_preference, us, i)
                    THEN LET ctor_wild_subpatterns == Fields_wildcards(t, split_ctors[i])
                         IN  is_useful_calls(
                               specialize_constructor(m, split_ctors[i], ctor_wild_subpatterns),
                               pop_head_constructor(v, ctor_wild_subpatterns),
                               witness_preference, is_under_guard)
                    ELSE {} : i \in 1..Len(split_ctors)}

----------------------------------------------------------------------------
(* compute_match_usefulness, one arm per step *)

\* MatchArm
MatchArm(pat, has_guard) == [pat |-> pat, has_guard |-> has_guard]

\* Reachability::Reachable(Vec<PatId>)
Reachable(unreachable) == [reachable |-> TRUE, unreachable |-> unreachable]

\* Reachability::Unreachable
Unreachable == [reachable |-> FALSE, unreachable |-> <<>>]

\* reachability_of reporting Unreachable unless the set is full.
reachability_of_unless_full(u) ==
    IF ~is_full(u.subpats) THEN Unreachable
    ELSE Reachable(list_unreachable_subpatterns(u.subpats).pats)

\* The `match usefulness` of the driver's closure: the Reachability of an arm.
reachability_of(u) ==
    IF is_empty(u.subpats) THEN Unreachable
    ELSE Reachable(list_unreachable_subpatterns(u.subpats).pats)

\* matrix_after pushing every arm, guarded or not.
matrix_after_push_guarded(m, arm) == push(m, from_pattern(arm.pat))

\* The matrix after an arm: a guarded arm is not pushed.
matrix_after(m, arm) ==
    IF ~arm.has_guard THEN push(m, from_pattern(arm.pat)) ELSE m

\* Shorthands for the patterns of the two-valued type.
BWild == Wild("Bool")
BT == Ctor("Bool", "T", <<>>)
BF == Ctor("Bool", "F", <<>>)
BOr(a, b) == Or("Bool", <<a, b>>)

\* A pair pattern `(a, b)`.
Pair(a, b) == Ctor("Pair", "Single", <<a, b>>)

\* The patterns without or-patterns, by type.
Leaves(t) ==
    IF t = "Pair"
    THEN {Wild("Pair"), Pair(BWild, BWild), Pair(BT, BWild), Pair(BF, BWild),
          Pair(BWild, BT), Pair(BWild, BF), Pair(BT, BT), Pair(BT, BF), Pair(BF, BF)}
    ELSE {Wild(t)} \cup {Ctor(t, TyCtors(t)[i], <<>>) : i \in 1..Len(TyCtors(t))}

\* The or-patterns of the model, by type: flat ones, nested ones, ones under
\* a constructor, and one with a single alternative.
OrPats(t) ==
    CASE t = "Bool" ->
           {BOr(BT, BF), BOr(BF, BT), BOr(BT, BT), BOr(BT, BWild), BOr(BWild, BT),
            BOr(BF, BWild), BOr(BWild, BF),
            BOr(BOr(BT, BF), BT), BOr(BT, BOr(BT, BF)), Or("Bool", <<BF, BT, BWild>>),
            Or("Bool", <<BT>>)}
      [] t = "Tri" ->
           {Or("Tri", <<Ctor("Tri", "A", <<>>), Ctor("Tri", "B", <<>>)>>),
            Or("Tri", <<Ctor("Tri", "B", <<>>), Ctor("Tri", "A", <<>>)>>),
            Or("Tri", <<Ctor("Tri", "A", <<>>), Wild("Tri")>>),
            Or("Tri", <<Wild("Tri"), Ctor("Tri", "A", <<>>)>>),
            Or("Tri", <<Ctor("Tri", "C", <<>>), Ctor("Tri", "C", <<>>)>>),
            Or("Tri", <<Ctor("Tri", "A", <<>>), Ctor("Tri", "B", <<>>), Ctor("Tri", "C", <<>>)>>)}
      [] t = "Pair" ->
           {Pair(BOr(BT, BF), BT), Pair(BOr(BT, BF), BOr(BF, BT)),
            Or("Pair", <<Pair(BT, BWild), Pair(BWild, BT)>>),
            Or("Pair", <<Pair(BT, BT), Pair(BOr(BT, BF), BT)>>),
            Or("Pair", <<Pair(BT, BWild), Pair(BT, BT)>>),
            Or("Pair", <<Pair(BT, BT), Pair(BF, BWild)>>),
            Or("Pair", <<Wild("Pair"), Pair(BT, BT)>>)}

\* Patterns an arm of a match on type t is drawn from.
Pats(t) == Leaves(t) \cup OrPats(t)

\* The arms a match on type t is drawn from.
Arms(t) == {MatchArm(p, g) : p \in Pats(t), g \in BOOLEAN}

Init ==
    /\ ty \in Types
    /\ arms = <<>>
    /\ matrix = Matrix_empty
    /\ arm_usefulness = <<>>
    /\ witnesses = <<>>
    /\ last_usefulness = new_not_useful("LeaveOutWitness")
    /\ pc = "arms"
    /\ sets = <<>>
    /\ merged = <<>>
    /\ wit_ctor = "Wildcard"
    /\ wit = <<>>
    /\ rebuilt = <<>>
    /\ row = <<>>

\* One iteration of the driver's `arms.iter().map(..)`.
ProcessArm ==
    /\ pc = "arms"
    /\ Len(arms) < MaxArms
    /\ \E arm \in Arms(ty) :
         LET v == from_pattern(arm.pat)
             u == is_useful(matrix, v, "LeaveOutWitness", arm.has_guard, TRUE)
         IN  /\ arms' = Append(arms, arm)
             /\ last_usefulness' = u
             /\ matrix' = matrix_after(matrix, arm)
             /\ arm_usefulness' = Append(arm_usefulness, reachability_of(u))
    /\ UNCHANGED <<ty, witnesses, pc, sets, merged, wit_ctor, wit, rebuilt, row>>

\* The final probe with a wildcard of the scrutinee's type, in witness mode.
Probe ==
    /\ pc = "arms"
    /\ LET v == from_pattern(Wild(ty))
           u == is_useful(matrix, v, "ConstructWitness", FALSE, TRUE)
       IN  /\ last_usefulness' = u
           /\ witnesses' = [k \in 1..Len(u.witnesses) |-> single_pattern(u.witnesses[k])]
    /\ pc' = "done"
    /\ UNCHANGED <<ty, arms, matrix, arm_usefulness, sets, merged, wit_ctor, wit, rebuilt, row>>

Next == ProcessArm \/ Probe

Spec == Init /\ [][Next]_vars

\* What is_useful returns for invocation c.
Returned(c) == is_useful(c.matrix, c.v, c.witness_preference, c.is_under_guard, FALSE)

\* The driver's `matrix` after its first n arms.
RECURSIVE matrix_upto(_)
matrix_upto(n) ==
    IF n = 0 THEN Matrix_empty ELSE matrix_after(matrix_upto(n - 1), arms[n])

\* The matrix the arm tested last was tested against.
matrix_before_last == matrix_upto(Len(arms) - 1)

\* The invocations of is_useful of the driver's last step: the test of the
\* last arm, or the final probe.
driver_calls ==
    IF pc = "done"
    THEN is_useful_calls(matrix, from_pattern(Wild(ty)), "ConstructWitness", FALSE)
    ELSE IF pc = "arms" /\ Len(arms) > 0
    THEN is_useful_calls(matrix_before_last, from_pattern(arms[Len(arms)].pat),
                         "LeaveOutWitness", arms[Len(arms)].has_guard)
    ELSE {}

----------------------------------------------------------------------------
(* What a match means: the values of a type and the values a pattern matches *)

\* The values of a type, each written as the pattern without wildcards and
\* or-patterns that matches it alone.
Values(t) ==
    IF t = "Pair"
    THEN {Pair(a, b) : a \in {BT, BF}, b \in {BT, BF}}
    ELSE {Ctor(t, TyCtors(t)[i], <<>>) : i \in 1..Len(TyCtors(t))}

\* Whether pattern p matches value val.
RECURSIVE Matches(_, _)
Matches(p, val) ==
    CASE p.kind = "Wild" -> TRUE
      [] p.kind = "Or"   -> \E i \in 1..Len(p.args) : Matches(p.args[i], val)
      [] p.kind = "Ctor" -> /\ p.ctor = val.ctor
                            /\ \A i \in 1..Len(p.args) : Matches(p.args[i], val.args[i])
      [] OTHER -> FALSE

\* The values of the scrutinee's type that pattern p matches.
Matched(p) == {val \in Values(ty) : Matches(p, val)}

\* The values matched by an unguarded arm among the first n arms.
Covered(n) ==
    {val \in Values(ty) : \E j \in 1..n : ~arms[j].has_guard /\ Matches(arms[j].pat, val)}

\* Whether the patterns of p contain an or-pattern.
RECURSIVE HasOr(_)
HasOr(p) == p.kind = "Or" \/ \E i \in 1..Len(p.args) : HasOr(p.args[i])

\* The branches of the or-patterns inside p.
RECURSIVE Branches(_)
Branches(p) ==
    UNION {IF p.kind = "Or" THEN {p.args[i]} \cup Branches(p.args[i]) ELSE Branches(p.args[i]) :
             i \in 1..Len(p.args)}

\* The leaves of an or-pattern, left to right.
RECURSIVE Flat(_)
Flat(p) ==
    IF p.kind # "Or" THEN <<p>>
    ELSE IF Len(p.args) = 0 THEN <<>>
    ELSE Flat(p.args[1]) \o Flat(Or(p.ty, Tail(p.args)))

\* The rows the unguarded arms among the first n arms stand for.
RECURSIVE UnguardedRows(_)
UnguardedRows(n) ==
    IF n = 0 THEN <<>>
    ELSE UnguardedRows(n - 1)
         \o (IF arms[n].has_guard THEN <<>>
             ELSE [k \in 1..Len(Flat(arms[n].pat)) |-> <<Flat(arms[n].pat)[k]>>])

U(p) == MatchArm(p, FALSE)

----------------------------------------------------------------------------
(* Properties of the driver *)

\* C1: once the driver is done, the witness list is empty if and only if every
\* value of the scrutinee's type is matched by an unguarded arm.
C1_ExhaustiveIffNoWitness ==
    pc = "done" => ((witnesses = <<>>) <=> (Covered(Len(arms)) = Values(ty)))

\* C1, Scenario A: the arms [T, F] over {T, F} are both reachable, no witness.
C1_Witness ==
    /\ pc = "done" /\ ty = "Bool" /\ arms = <<U(BT), U(BF)>>
    /\ arm_usefulness = <<Reachable(<<>>), Reachable(<<>>)>>
    /\ witnesses = <<>>

\* C2: arm i is reported Unreachable if and only if every value its pattern
\* matches is matched by an unguarded arm before it.
C2_UnreachableIffCovered ==
    /\ Len(arm_usefulness) = Len(arms)
    /\ \A i \in 1..Len(arms) :
         (~arm_usefulness[i].reachable) <=> (Matched(arms[i].pat) \subseteq Covered(i - 1))

\* C2, Scenario C: [Wildcard, T] gives Reachable, then Unreachable.
C2_Witness ==
    /\ ty = "Bool" /\ arms = <<U(BWild), U(BT)>>
    /\ arm_usefulness = <<Reachable(<<>>), Unreachable>>

\* C3: every witness matches a value, and no value it matches is matched by
\* an unguarded arm.
C3_WitnessesAreCounterExamples ==
    pc = "done" =>
      \A k \in 1..Len(witnesses) :
         /\ Matched(witnesses[k]) # {}
         /\ Matched(witnesses[k]) \cap Covered(Len(arms)) = {}

\* C3, Scenario B: the arms [T] over {T, F} give the witness F.
C3_Witness ==
    /\ pc = "done" /\ ty = "Bool" /\ arms = <<U(BT)>>
    /\ witnesses = <<BF>>

\* C4, Scenario E: over a pair of two-valued fields the arms [(T,_), (_,T)]
\* are both reachable and the witness list is exactly [(F,F)].
C4_ScenarioE ==
    (ty = "Pair" /\ arms = <<U(Pair(BT, BWild)), U(Pair(BWild, BT))>>) =>
      /\ arm_usefulness[1].reachable /\ arm_usefulness[2].reachable
      /\ pc = "done" => witnesses = <<Pair(BF, BF)>>

\* C4: the driver is done with the arms of Scenario E.
C4_Witness ==
    /\ pc = "done" /\ ty = "Pair"
    /\ arms = <<U(Pair(BT, BWild)), U(Pair(BWild, BT))>>
    /\ witnesses = <<Pair(BF, BF)>>

FirstLeafRedundant(i) ==
    /\ arms[i].pat.kind = "Or" /\ Len(arms[i].pat.args) = 2
    /\ ~is_or_pat(arms[i].pat.args[1]) /\ ~is_or_pat(arms[i].pat.args[2])
    /\ Matched(arms[i].pat.args[1]) \subseteq Covered(i - 1)
    /\ ~(Matched(arms[i].pat.args[2]) \subseteq Covered(i - 1))

\* C6 as stated: such an arm is Reachable and lists exactly the leaf A.
C6_ExactlyFirstLeaf ==
    \A i \in 1..Len(arms) :
       FirstLeafRedundant(i) => arm_usefulness[i] = Reachable(<<arms[i].pat.args[1]>>)

\* C6 amended: such an arm is Reachable, the leaf A is the first entry of its
\* list and B is not in the list; the list is exactly [A] when B holds no
\* or-pattern, and any further entry is a branch of an or-pattern inside B.
C6_FirstLeafListed ==
    \A i \in 1..Len(arms) :
       FirstLeafRedundant(i) =>
         LET A == arms[i].pat.args[1]
             B == arms[i].pat.args[2]
             l == arm_usefulness[i].unreachable
         IN  /\ arm_usefulness[i].reachable
             /\ Len(l) >= 1 /\ l[1] = A
             /\ \A k \in 2..Len(l) : l[k] # B /\ l[k] \in Branches(B)
             /\ ~HasOr(B) => l = <<A>>

\* C6: `(T,T) | (F,_)` after the arm (T,_): the first leaf is listed alone.
C6_Witness ==
    /\ ty = "Pair" /\ Len(arms) = 2 /\ arms[1] = U(Pair(BT, BWild))
    /\ arms[2] = U(Or("Pair", <<Pair(BT, BT), Pair(BF, BWild)>>))
    /\ arm_usefulness[2] = Reachable(<<Pair(BT, BT)>>)

\* C7, Scenario D: over {T, F} the arms [T | F, T]: the first is Reachable, its
\* reachability set is the full set and it lists no unreachable leaf; the
\* second is Unreachable.
C7_ScenarioD ==
    (ty = "Bool" /\ Len(arms) >= 1 /\ arms[1] = U(BOr(BT, BF))) =>
      /\ arm_usefulness[1] = Reachable(<<>>)
      /\ (pc = "arms" /\ Len(arms) = 1) => last_usefulness = NoWitnesses(Full)
      /\ (Len(arms) >= 2 /\ arms[2] = U(BT)) => arm_usefulness[2] = Unreachable

\* C7: both arms of Scenario D were tested.
C7_Witness ==
    /\ ty = "Bool" /\ arms = <<U(BOr(BT, BF)), U(BT)>>
    /\ arm_usefulness = <<Reachable(<<>>), Unreachable>>

\* C8: the matrix holds exactly the leaves of the unguarded arms, in source
\* order (a guarded arm leaves it unchanged), and an arm equal to a guarded
\* arm before it is Reachable unless the unguarded arms before it cover it.
C8_GuardedNeverInserted ==
    /\ matrix = UnguardedRows(Len(arms))
    /\ \A i \in 1..Len(arms) : \A j \in 1..(i - 1) :
          (/\ arms[j].has_guard /\ arms[j].pat = arms[i].pat
           /\ ~(Matched(arms[i].pat) \subseteq Covered(i - 1)))
          => arm_usefulness[i].reachable

\* C8: a guarded wildcard, then the same wildcard: the matrix held no row when
\* the second was tested, and it was Reachable.
C8_Witness ==
    /\ ty = "Tri" /\ arms = <<MatchArm(Wild("Tri"), TRUE), U(Wild("Tri"))>>
    /\ arm_usefulness = <<Reachable(<<>>), Reachable(<<>>)>>
    /\ matrix = <<<<Wild("Tri")>>>>

----------------------------------------------------------------------------
(* SubPatSet::union and Usefulness::merge on the sets the driver computes *)

\* The matrices of at most n rows of or-free patterns of type t.
RECURSIVE Matrices(_, _)
Matrices(t, n) ==
    IF n = 0 THEN {Matrix_empty}
    ELSE Matrices(t, n - 1) \cup
         {Append(m, from_pattern(p)) : m \in Matrices(t, n - 1), p \in Leaves(t)}

\* The reachability sets is_useful computes for the row <<p>>, over the
\* matrices of the model: sets about one row, hence of compatible shape.
SetsOf(p) ==
    {is_useful(m, from_pattern(p), "LeaveOutWitness", g, TRUE).subpats :
       m \in Matrices(p.ty, MaxRows), g \in BOOLEAN}

\* The orders three operands can be merged in.
Orders == {<<1, 2, 3>>, <<1, 3, 2>>, <<2, 1, 3>>, <<2, 3, 1>>, <<3, 1, 2>>, <<3, 2, 1>>}

\* Usefulness::merge of reachability sets, in the given order.
merge_sets(ss, order) ==
    merge("LeaveOutWitness", [k \in 1..Len(order) |-> NoWitnesses(ss[order[k]])]).subpats

InitUnion ==
    /\ pc = "algebra"
    /\ ty \in Types
    /\ \E p \in OrPats(ty) :
         /\ row = from_pattern(p)
         /\ sets \in [1..3 -> SetsOf(p)]
    /\ merged = <<>>
    /\ arms = <<>>
    /\ matrix = Matrix_empty
    /\ arm_usefulness = <<>>
    /\ witnesses = <<>>
    /\ last_usefulness = new_not_useful("LeaveOutWitness")
    /\ wit_ctor = "Wildcard"
    /\ wit = <<>>
    /\ rebuilt = <<>>

\* (a u b) u c and a u (b u c)
UnionAssoc ==
    /\ pc = "algebra"
    /\ merged' = <<union(union(sets[1], sets[2]), sets[3]),
                   union(sets[1], union(sets[2], sets[3]))>>
    /\ pc' = "assoc"
    /\ UNCHANGED <<ty, arms, matrix, arm_usefulness, witnesses, last_usefulness,
                   sets, wit_ctor, wit, rebuilt, row>>

\* Full u x, x u Full, Empty u x, x u Empty
UnionUnits ==
    /\ pc = "algebra"
    /\ merged' = <<union(Full, sets[1]), union(sets[1], Full),
                   union(Empty, sets[1]), union(sets[1], Empty)>>
    /\ pc' = "units"
    /\ UNCHANGED <<ty, arms, matrix, arm_usefulness, witnesses, last_usefulness,
                   sets, wit_ctor, wit, rebuilt, row>>

\* Usefulness::merge of the operands as given, and in another order.
MergeReordered ==
    /\ pc = "algebra"
    /\ \E order \in Orders :
         merged' = <<merge_sets(sets, <<1, 2, 3>>), merge_sets(sets, order)>>
    /\ pc' = "reordered"
    /\ UNCHANGED <<ty, arms, matrix, arm_usefulness, witnesses, last_usefulness,
                   sets, wit_ctor, wit, rebuilt, row>>

NextUnion == UnionAssoc \/ UnionUnits \/ MergeReordered

SpecUnion == InitUnion /\ [][NextUnion]_vars

\* C9: union is associative; Full absorbs (Full u x and x u Full are full);
\* Empty is the identity (Empty u x and x u Empty are x); merging the same
\* operands in another order gives the same is_empty and is_full answers and
\* the same list of unreachable leaves.
C9_UnionAlgebra ==
    /\ pc = "assoc" => merged[1] = merged[2]
    /\ pc = "units" => /\ is_full(merged[1]) /\ is_full(merged[2])
                       /\ merged[3] = sets[1] /\ merged[4] = sets[1]
    /\ pc = "reordered" =>
         /\ is_empty(merged[1]) = is_empty(merged[2])
         /\ is_full(merged[1]) = is_full(merged[2])
         /\ list_unreachable_subpatterns(merged[1]) = list_unreachable_subpatterns(merged[2])

\* C9: three sets about a pair with an or-pattern in each field, neither
\* empty nor full and pairwise different, were united both ways into a set
\* that is none of them.
C9_Witness ==
    /\ pc = "assoc"
    /\ row = <<Pair(BOr(BT, BF), BOr(BF, BT))>>
    /\ \A k \in 1..3 : ~is_empty(sets[k]) /\ ~is_full(sets[k])
    /\ sets[1] # sets[2] /\ sets[2] # sets[3] /\ sets[1] # sets[3]
    /\ merged[1] \notin {sets[1], sets[2], sets[3]}

----------------------------------------------------------------------------
(* Witness::apply_constructor, then PatStack::pop_head_constructor *)

\* The sequences of one pattern per type of tys, each an or-free pattern.
RECURSIVE SubWitnesses(_)
SubWitnesses(tys) ==
    IF Len(tys) = 0 THEN {<<>>}
    ELSE {<<p>> \o w : p \in Leaves(tys[1]), w \in SubWitnesses(Tail(tys))}

\* The witnesses of at most n patterns of the two-valued type.
RECURSIVE Prefixes(_)
Prefixes(n) ==
    IF n = 0 THEN {<<>>}
    ELSE Prefixes(n - 1) \cup {Append(w, p) : w \in Prefixes(n - 1), p \in Leaves("Bool")}

InitRoundTrip ==
    /\ pc = "roundtrip"
    /\ ty \in WitnessTypes
    /\ wit_ctor \in {TyCtors(ty)[i] : i \in 1..Len(TyCtors(ty))}
    /\ wit \in {w \o Rev(sub) : w \in Prefixes(MaxPrefix),
                                sub \in SubWitnesses(CtorFieldTys(ty, wit_ctor))}
    /\ rebuilt = <<>>
    /\ row = <<>>
    /\ sets = <<>>
    /\ merged = <<>>
    /\ arms = <<>>
    /\ matrix = Matrix_empty
    /\ arm_usefulness = <<>>
    /\ witnesses = <<>>
    /\ last_usefulness = new_not_useful("ConstructWitness")

\* The trailing sub-witnesses are folded into one pattern of the constructor.
Rebuild ==
    /\ pc = "roundtrip"
    /\ rebuilt' = Witness_apply_constructor(wit, ty, wit_ctor, Fields_wildcards(ty, wit_ctor))
    /\ pc' = "rebuilt"
    /\ UNCHANGED <<ty, arms, matrix, arm_usefulness, witnesses, last_usefulness,
                   sets, merged, wit_ctor, wit, row>>

\* The row the rebuilt witness stands for (first column first) is decomposed
\* against the same constructor.
Decompose ==
    /\ pc = "rebuilt"
    /\ row' = pop_head_constructor(Rev(rebuilt), Fields_wildcards(ty, wit_ctor))
    /\ pc' = "decomposed"
    /\ UNCHANGED <<ty, arms, matrix, arm_usefulness, witnesses, last_usefulness,
                   sets, merged, wit_ctor, wit, rebuilt>>

NextRoundTrip == Rebuild \/ Decompose

SpecRoundTrip == InitRoundTrip /\ [][NextRoundTrip]_vars

\* The arity of the constructor being rebuilt.
Arity == Len(CtorFieldTys(ty, wit_ctor))

\* C10: folding the trailing k sub-witnesses into one pattern and decomposing
\* that pattern against the same constructor returns the k sub-patterns, first
\* column first (the witness holds them last column first).
C10_RoundTrip ==
    pc = "decomposed" =>
      /\ Len(row) >= Arity
      /\ SubSeq(row, 1, Arity) = Rev(SubSeq(wit, Len(wit) - Arity + 1, Len(wit)))

\* C10: a witness [T, F, (T,F), A] was rebuilt for the struct of three fields
\* and decomposed into the columns A, (T,F), F before the column T.
C10_Witness ==
    /\ pc = "decomposed" /\ ty = "Rec" /\ wit_ctor = "Single"
    /\ wit = <<BT, BF, Pair(BT, BF), Ctor("Tri", "A", <<>>)>>
    /\ rebuilt = <<BT, Ctor("Rec", "Single", <<Ctor("Tri", "A", <<>>), Pair(BT, BF), BF>>)>>
    /\ row = <<Ctor("Tri", "A", <<>>), Pair(BT, BF), BF, BT>>

----------------------------------------------------------------------------
(* Properties of the invocations of is_useful *)

\* Whether every value leaf k of arm i's or-pattern matches is matched by an
\* unguarded arm before i or, when arm i has no guard, by a leaf before k.
SiblingCovered(i, k) ==
    LET leaves == Flat(arms[i].pat)
    IN  Matched(leaves[k]) \subseteq
          (Covered(i - 1) \cup
           (IF arms[i].has_guard THEN {}
            ELSE UNION {Matched(leaves[j]) : j \in 1..(k - 1)}))

\* The leaves of arm i's or-pattern from leaf k on that are so covered.
RECURSIVE CoveredLeaves(_, _)
CoveredLeaves(i, k) ==
    IF k > Len(Flat(arms[i].pat)) THEN <<>>
    ELSE (IF SiblingCovered(i, k) THEN <<Flat(arms[i].pat)[k]>> ELSE <<>>)
         \o CoveredLeaves(i, k + 1)

\* C11: when the arm tested last is an or-pattern with leaves v0..v(n-1),
\* leaf k is tested against the matrix the arm was tested against extended
\* with the rows v0..v(k-1) in that order, or against that matrix alone under
\* a guard, and the driver's matrix is the one the arm leaves behind. Hence,
\* for an arm whose leaves hold no or-pattern, the leaves listed as
\* unreachable are, in order, those matched entirely by the unguarded arms
\* before it and, without a guard, by the leaves before them; under a guard
\* the earlier siblings do not count.
C11_SiblingsInserted ==
    /\ (pc = "arms" /\ Len(arms) > 0 /\ is_or_pat(arms[Len(arms)].pat)) =>
         LET arm == arms[Len(arms)]
             leaves == Flat(arm.pat)
         IN  /\ \A k \in 1..Len(leaves) :
                   Call(IF arm.has_guard THEN matrix_before_last
                        ELSE matrix_before_last \o [j \in 1..(k - 1) |-> <<leaves[j]>>],
                        <<leaves[k]>>, "LeaveOutWitness", arm.has_guard) \in driver_calls
             /\ matrix = matrix_after(matrix_before_last, arm)
    /\ \A i \in 1..Len(arms) :
         (/\ is_or_pat(arms[i].pat)
          /\ \A k \in 1..Len(Flat(arms[i].pat)) : ~HasOr(Flat(arms[i].pat)[k]))
         => arm_usefulness[i] =
              (IF \A k \in 1..Len(Flat(arms[i].pat)) : SiblingCovered(i, k)
               THEN Unreachable ELSE Reachable(CoveredLeaves(i, 1)))

\* C11: `(T,_) | (T,T)` under a guard lists no leaf; the same or-pattern
\* without a guard lists its second leaf, covered by the first.
C11_Witness ==
    /\ ty = "Pair" /\ pc = "arms"
    /\ arms = <<MatchArm(Or("Pair", <<Pair(BT, BWild), Pair(BT, BT)>>), TRUE),
                U(Or("Pair", <<Pair(BT, BWild), Pair(BT, BT)>>))>>
    /\ arm_usefulness = <<Reachable(<<>>), Reachable(<<Pair(BT, BT)>>)>>
    /\ Call(<<<<Pair(BT, BWild)>>>>, <<Pair(BT, BT)>>, "LeaveOutWitness", FALSE) \in driver_calls

\* The patterns of a list.
Listed(pats) == {pats[k] : k \in 1..Len(pats)}

\* C16: for the reachability set the driver computed for the arm tested last,
\* list_unreachable_subpatterns returns None exactly when the set is empty;
\* when it is not empty the arm is Reachable with the returned list, and the
\* walk that built the list met no Empty node: no list of any arm holds the
\* pattern that stands for the panic of fill_subpats.
C16_ListDerivable ==
    /\ (pc = "arms" /\ Len(arms) > 0) =>
         LET subpats == last_usefulness.subpats
             listed == list_unreachable_subpatterns(subpats)
         IN  /\ last_usefulness.variant = "NoWitnesses"
             /\ listed.some <=> ~is_empty(subpats)
             /\ ~is_empty(subpats) => arm_usefulness[Len(arms)] = Reachable(listed.pats)
             /\ BugPat \notin Listed(fill_subpats(subpats, <<>>)) \/ is_empty(subpats)
    /\ \A i \in 1..Len(arm_usefulness) : BugPat \notin Listed(arm_usefulness[i].unreachable)

\* C16: `(T,T) | (T | F, T)` after `(T,T)`: the set is neither empty nor full
\* and the walk lists two patterns.
C16_Witness ==
    /\ pc = "arms" /\ ty = "Pair"
    /\ arms = <<U(Pair(BT, BT)), U(Or("Pair", <<Pair(BT, BT), Pair(BOr(BT, BF), BT)>>))>>
    /\ ~is_empty(last_usefulness.subpats) /\ ~is_full(last_usefulness.subpats)
    /\ arm_usefulness[2] = Reachable(<<Pair(BT, BT), BT>>)

\* The Alt nodes of a set.
RECURSIVE AltNodes(_)
AltNodes(s) ==
    (IF s.tag = "Alt" THEN {s} ELSE {})
    \cup UNION {AltNodes(s.subpats[i]) : i \in DOMAIN s.subpats}

\* The or-patterns inside p, p included.
RECURSIVE OrsIn(_)
OrsIn(p) ==
    (IF p.kind = "Or" THEN {p} ELSE {}) \cup UNION {OrsIn(p.args[i]) : i \in 1..Len(p.args)}

\* The reachability sets is_useful returned in the driver's last step.
driver_sets ==
    {Returned(c).subpats : c \in {d \in driver_calls : d.witness_preference = "LeaveOutWitness"}}

\* C17: expanding an or-pattern of an arm gives its leaves left to right, the
\* same whenever it is expanded; and every Alt node of a reachability set
\* computed in the driver's last step carries an or-pattern as source, has as
\* alt_count the number of leaves that pattern expands to, has only keys
\* below alt_count, and leaf i of the re-expansion is the head of a row
\* is_useful was invoked on, for every key i.
C17_ReexpansionAgrees ==
    /\ \A i \in 1..Len(arms) : \A p \in OrsIn(arms[i].pat) :
          /\ expand_or_pat(p) = Flat(p)
          /\ [k \in 1..Len(PatStack_expand_or_pat(<<p>>)) |->
                head(PatStack_expand_or_pat(<<p>>)[k])] = expand_or_pat(p)
    /\ \A s \in driver_sets : \A node \in AltNodes(s) :
          /\ is_or_pat(node.pat)
          /\ node.alt_count = Len(expand_or_pat(node.pat))
          /\ \A i \in DOMAIN node.subpats :
                /\ i < node.alt_count
                /\ \E c \in driver_calls :
                      Len(c.v) > 0 /\ head(c.v) = expand_or_pat(node.pat)[i + 1]
          /\ \E c \in driver_calls : Len(c.v) > 0 /\ head(c.v) = node.pat

\* C17: `(T,T) | (T | F, T)` after `(T,T)`: the set of the arm holds an Alt
\* node for the arm's or-pattern and one for the `T | F` inside its second
\* leaf, each with one of two alternatives present.
C17_Witness ==
    /\ pc = "arms" /\ ty = "Pair"
    /\ arms = <<U(Pair(BT, BT)), U(Or("Pair", <<Pair(BT, BT), Pair(BOr(BT, BF), BT)>>))>>
    /\ {[pat |-> node.pat, alt_count |-> node.alt_count, keys |-> DOMAIN node.subpats] :
          node \in AltNodes(last_usefulness.subpats)}
         = {[pat |-> arms[2].pat, alt_count |-> 2, keys |-> {1}],
            [pat |-> BOr(BT, BF), alt_count |-> 2, keys |-> {1}]}

\* Whether a set holds the outcome of a panic.
RECURSIVE HasBug(_)
HasBug(s) == s.tag = "Bug" \/ \E i \in DOMAIN s.subpats : HasBug(s.subpats[i])

----------------------------------------------------------------------------
(* Matrix::push, Matrix::from_iter and Matrix::specialize_constructor *)

\* The patterns of the rows pushed to a matrix: those of the arms and, for
\* the pair, or-patterns nested in or-patterns, under a constructor or not.
MatrixPats(t) ==
    Pats(t) \cup
    (IF t = "Pair"
     THEN {Pair(BOr(BOr(BF, BT), BWild), BT),
           Or("Pair", <<Or("Pair", <<Pair(BT, BT), Pair(BOr(BF, BT), BF)>>), Wild("Pair")>>)}
     ELSE {})

InitMatrix ==
    /\ pc = "matrix"
    /\ ty \in Types
    /\ matrix = Matrix_empty
    /\ row = <<>>
    /\ wit_ctor = "Wildcard"
    /\ arms = <<>>
    /\ arm_usefulness = <<>>
    /\ witnesses = <<>>
    /\ last_usefulness = new_not_useful("LeaveOutWitness")
    /\ sets = <<>>
    /\ merged = <<>>
    /\ wit = <<>>
    /\ rebuilt = <<>>

\* Matrix::push of a one-column row, as the driver pushes an arm.
MatrixPush ==
    /\ pc \in {"matrix", "pushed"}
    /\ Len(matrix) < MaxPushes
    /\ \E p \in MatrixPats(ty) :
         /\ row' = from_pattern(p)
         /\ matrix' = push(matrix, from_pattern(p))
    /\ pc' = "pushed"
    /\ UNCHANGED <<ty, arms, arm_usefulness, witnesses, last_usefulness,
                   sets, merged, wit_ctor, wit, rebuilt>>

\* Matrix::specialize_constructor (and through it Matrix::from_iter) by a
\* constructor of the first column's type or by Missing.
MatrixSpecialize ==
    /\ pc \in {"pushed", "specialized"}
    /\ column_count(matrix) > 0
    /\ LET t == heads(matrix)[1].ty
       IN  \E ctor \in {TyCtors(t)[i] : i \in 1..Len(TyCtors(t))} \cup {"Missing"} :
             /\ wit_ctor' = ctor
             /\ matrix' = specialize_constructor(matrix, ctor, Fields_wildcards(t, ctor))
    /\ pc' = "specialized"
    /\ UNCHANGED <<ty, arms, arm_usefulness, witnesses, last_usefulness,
                   sets, merged, wit, rebuilt, row>>

NextMatrix == MatrixPush \/ MatrixSpecialize

SpecMatrix == InitMatrix /\ [][NextMatrix]_vars

\* The rows a row stands for: one per leaf of its head, left to right, each
\* followed by the other columns of the row.
LeafRows(r) ==
    IF Len(r) = 0 THEN <<r>>
    ELSE [k \in 1..Len(Flat(Head(r))) |-> <<Flat(Head(r))[k]>> \o Tail(r)]

\* The rows a sequence of rows stands for, in order.
RECURSIVE AllLeafRows(_)
AllLeafRows(rows) ==
    IF Len(rows) = 0 THEN <<>> ELSE LeafRows(Head(rows)) \o AllLeafRows(Tail(rows))

\* The rows of the matrix whose head is `ctor` or a wildcard, with the head
\* replaced by its fields (wildcards for a wildcard head).
Decomposed(m, t, ctor) ==
    LET kept == SelectSeq(m, LAMBDA r : Head(r).kind = "Wild" \/ Head(r).ctor = ctor)
    IN  [i \in 1..Len(kept) |->
           (IF Head(kept[i]).kind = "Wild"
            THEN [j \in 1..Len(CtorFieldTys(t, ctor)) |-> Wild(CtorFieldTys(t, ctor)[j])]
            ELSE Head(kept[i]).args) \o Tail(kept[i])]

\* No row of the matrix starts with an or-pattern.
NoOrHead == \A i \in 1..Len(matrix) : Len(matrix[i]) > 0 => ~is_or_pat(Head(matrix[i]))

\* C12: a matrix never stores a row whose head is an or-pattern; a push adds,
\* after the rows already there, the rows of the leaves of the pushed row's
\* head in depth-first left-to-right order; a specialization stores, for the
\* kept rows in order, the leaves of whatever or-pattern it exposes as head.
C12_NoOrHeads ==
    /\ []NoOrHead
    /\ [][/\ pc' = "pushed" => matrix' = matrix \o LeafRows(row')
          /\ pc' = "specialized" =>
                matrix' = AllLeafRows(Decomposed(matrix, Head(matrix[1]).ty, wit_ctor'))]_vars

\* C12: the row `((F | T) | _, T)` was pushed after `(T | F, F | T)` and the
\* matrix specialized by the pair constructor: five rows, none with an
\* or-pattern as head.
C12_Witness ==
    /\ pc = "specialized" /\ ty = "Pair" /\ wit_ctor = "Single"
    /\ row = <<Pair(BOr(BOr(BF, BT), BWild), BT)>>
    /\ matrix = <<<<BT, BOr(BF, BT)>>, <<BF, BOr(BF, BT)>>,
                  <<BF, BT>>, <<BT, BT>>, <<BWild, BT>>>>

----------------------------------------------------------------------------
(* Widths of the rows across the invocations of is_useful *)

\* The invocations among `calls` whose row has a head that is no or-pattern.
CtorCalls(calls) == {c \in calls : Len(c.v) > 0 /\ ~is_or_pat(head(c.v))}

\* The type is_useful takes the first column to have.
ColumnTy(c) == IF Len(c.matrix) > 0 THEN heads(c.matrix)[1].ty ELSE head(c.v).ty

\* The constructors is_useful specializes by in invocation c.
SplitCtors(c) ==
    LET split_ctors == split(ColumnTy(c), head_ctor(c.v), head_ctors(c.matrix))
    IN  {split_ctors[i] : i \in 1..Len(split_ctors)}

\* C13: at every invocation of is_useful of the driver with a non-empty row
\* v, every row of the matrix has as many columns as v (the condition of the
\* assertion); and specializing by a constructor of arity k turns v and every
\* kept row of n columns into rows of n - 1 + k columns whose columns after
\* the first k are the columns after the head, unchanged.
C13_WidthsAgree ==
    /\ \A c \in driver_calls :
          Len(c.v) > 0 => \A i \in 1..Len(c.matrix) : Len(c.matrix[i]) = Len(c.v)
    /\ \A c \in CtorCalls(driver_calls) : \A ctor \in SplitCtors(c) :
          LET fields == Fields_wildcards(ColumnTy(c), ctor)
              k == Len(fields)
              n == Len(c.v)
              v2 == pop_head_constructor(c.v, fields)
              m2 == specialize_constructor(c.matrix, ctor, fields)
              kept == Decomposed(c.matrix, ColumnTy(c), ctor)
          IN  /\ Len(v2) = n - 1 + k
              /\ SubSeq(v2, k + 1, Len(v2)) = Tail(c.v)
              /\ \A i \in 1..Len(m2) : Len(m2[i]) = n - 1 + k
              /\ [i \in 1..Len(m2) |-> SubSeq(m2[i], k + 1, n - 1 + k)]
                   = [i \in 1..Len(AllLeafRows(kept)) |->
                        SubSeq(AllLeafRows(kept)[i], k + 1, n - 1 + k)]

\* C13: testing `(_, T)` after `(T, _)`, is_useful was invoked on the two
\* columns of the pair and then, after the constructor T, on the second.
C13_Witness ==
    /\ ty = "Pair" /\ pc = "arms" /\ arms = <<U(Pair(BT, BWild)), U(Pair(BWild, BT))>>
    /\ Call(<<<<BT, BWild>>>>, <<BWild, BT>>, "LeaveOutWitness", FALSE) \in driver_calls
    /\ Call(<<<<BWild>>>>, <<BT>>, "LeaveOutWitness", FALSE) \in driver_calls

----------------------------------------------------------------------------
(* Length of the witnesses across the invocations of is_useful *)

\* C14: in witness mode every witness is_useful returns for the row v holds
\* exactly Len(v) patterns; the witnesses of the final probe hold one pattern
\* each (the assertion of single_pattern); and every witness handed to
\* Witness::apply_constructor holds at least `arity` patterns.
C14_WitnessLength ==
    /\ \A c \in driver_calls :
          c.witness_preference = "ConstructWitness" =>
            /\ Returned(c).variant = "WithWitnesses"
            /\ \A k \in 1..Len(Returned(c).witnesses) :
                  Len(Returned(c).witnesses[k]) = Len(c.v)
    /\ pc = "done" =>
          /\ Len(witnesses) = Len(last_usefulness.witnesses)
          /\ \A k \in 1..Len(last_usefulness.witnesses) :
                Len(last_usefulness.witnesses[k]) = 1
    /\ \A c \in CtorCalls(driver_calls) : \A ctor \in SplitCtors(c) :
          c.witness_preference = "ConstructWitness" =>
            LET fields == Fields_wildcards(ColumnTy(c), ctor)
                sub == is_useful(specialize_constructor(c.matrix, ctor, fields),
                                 pop_head_constructor(c.v, fields),
                                 "ConstructWitness", c.is_under_guard, FALSE)
            IN  \A k \in 1..Len(sub.witnesses) : Len(sub.witnesses[k]) >= Len(fields)

\* C14: the probe after `(T, _)` and `(_, T)` returned the one witness
\* (F, F), folded from a witness of two patterns for the two columns.
C14_Witness ==
    /\ pc = "done" /\ ty = "Pair" /\ arms = <<U(Pair(BT, BWild)), U(Pair(BWild, BT))>>
    /\ last_usefulness = WithWitnesses(<< <<Pair(BF, BF)>> >>)
    /\ \E c \in driver_calls :
          /\ c.v = <<BWild, BWild>>
          /\ Returned(c) = WithWitnesses(<< <<BF, BF>> >>)

----------------------------------------------------------------------------
(* Shapes of the reachability sets across the invocations of is_useful *)

\* The usefulnesses is_useful merges in invocation c, all of them.
Usefulnesses(c) ==
    IF Len(c.v) = 0 THEN <<>>
    ELSE IF is_or_pat(head(c.v))
    THEN or_usefulnesses(c.matrix, PatStack_expand_or_pat(c.v), 1,
                         c.witness_preference, c.is_under_guard, head(c.v))
    ELSE ctor_usefulnesses(c.matrix, c.v, ColumnTy(c),
                           split(ColumnTy(c), head_ctor(c.v), head_ctors(c.matrix)), 1,
                           c.witness_preference, c.is_under_guard)

\* C19: in the driver's last step no operation on reachability sets panicked.
\* Every result of is_useful in reachability mode is NoWitnesses of Empty,
\* Full or a Seq (never an Alt at the top), in witness mode WithWitnesses;
\* every usefulness handed to Usefulness::merge (the results of
\* unsplit_or_pat and unspecialize) and every intermediate result of merge
\* (the results of union) is free of the outcome of a panic, so union met Seq
\* with Seq and Alt with Alt only.
C19_NoShapeFault ==
    \A c \in driver_calls :
       /\ c.witness_preference = "LeaveOutWitness" =>
            /\ Returned(c).variant = "NoWitnesses"
            /\ Returned(c).subpats.tag \in {"Empty", "Full", "Seq"}
       /\ c.witness_preference = "ConstructWitness" =>
            Returned(c).variant = "WithWitnesses"
       /\ ~HasBug(Returned(c).subpats)
       /\ \A k \in 1..Len(Usefulnesses(c)) :
            merge_pulls(c.witness_preference, Usefulnesses(c), k) =>
              /\ Usefulnesses(c)[k].variant = Returned(c).variant
              /\ ~HasBug(Usefulnesses(c)[k].subpats)
              /\ ~HasBug(merge(c.witness_preference, SubSeq(Usefulnesses(c), 1, k)).subpats)

\* An invocation in which union met two sets that are neither empty nor full.
UnionMatched(c) ==
    \E k \in 2..Len(Usefulnesses(c)) :
       LET self == merge(c.witness_preference, SubSeq(Usefulnesses(c), 1, k - 1)).subpats
           other == Usefulnesses(c)[k].subpats
       IN  /\ c.witness_preference = "LeaveOutWitness"
           /\ ~is_empty(self) /\ ~is_full(self) /\ ~is_empty(other) /\ ~is_full(other)
           /\ self.tag = "Seq" /\ other.tag = "Seq"
           /\ AltNodes(self) # {} /\ AltNodes(other) # {}

\* C19: in the test of an arm union met two Seq sets, neither empty nor full,
\* and inside them two Alt sets.
C19_Witness ==
    /\ pc = "arms" /\ Len(arms) = 2
    /\ \E c \in driver_calls : UnionMatched(c)

----------------------------------------------------------------------------
(* SubPatSet::unspecialize *)

\* The sets stored under an index of a Seq handed to unspecialize.
SeqEntries ==
    {Empty, Full,
     SeqSet(0 :> AltSet(0 :> Full, 2, BOr(BT, BF))),
     AltSet(0 :> Full, 2, BOr(BT, BF)),
     AltSet(1 :> Full, 2, BOr(BT, BF))}

\* The Seq sets with entries under indices up to MaxIndex.
SeqSets ==
    UNION {{SeqSet(f) : f \in [keys -> SeqEntries]} : keys \in SUBSET (0..MaxIndex)}

InitUnspecialize ==
    /\ pc = "specialized set"
    /\ ty \in WitnessTypes
    /\ wit_ctor \in {TyCtors(ty)[i] : i \in 1..Len(TyCtors(ty))}
    /\ sets \in {<<s>> : s \in SeqSets \cup {Empty, Full}}
    /\ merged = <<>>
    /\ arms = <<>>
    /\ matrix = Matrix_empty
    /\ arm_usefulness = <<>>
    /\ witnesses = <<>>
    /\ last_usefulness = new_not_useful("LeaveOutWitness")
    /\ wit = <<>>
    /\ rebuilt = <<>>
    /\ row = <<>>

\* Usefulness::apply_constructor in reachability mode: the set is
\* unspecialized by the number of fields of the constructor.
Unspecialize ==
    /\ pc = "specialized set"
    /\ merged' = <<unspecialize(sets[1], Len(Fields_wildcards(ty, wit_ctor)))>>
    /\ pc' = "unspecialized"
    /\ UNCHANGED <<ty, arms, matrix, arm_usefulness, witnesses, last_usefulness,
                   sets, wit_ctor, wit, rebuilt, row>>

NextUnspecialize == Unspecialize

SpecUnspecialize == InitUnspecialize /\ [][NextUnspecialize]_vars

\* C15: unspecialize(arity) undoes the column splice of specialization. Full
\* and Empty come back unchanged. For a Seq the result is a Seq in which every
\* entry of index i >= arity sits at index i - arity + 1 (also for arity 0),
\* the entries of index i < arity sit at their index in a Seq stored at index
\* 0, index 0 is absent when there are none, and there is no other entry.
\* is_empty and is_full answer for the result as for the input.
C15_UnspecializeInverse ==
    pc = "unspecialized" =>
      LET s == sets[1]
          r == merged[1]
          a == Arity
          first == {i \in DOMAIN s.subpats : i < a}
          later == {i \in DOMAIN s.subpats : i >= a}
      IN  /\ s.tag \in {"Full", "Empty"} => r = s
          /\ s.tag = "Seq" =>
                /\ r.tag = "Seq"
                /\ DOMAIN r.subpats =
                     {i - a + 1 : i \in later} \cup (IF first # {} THEN {0} ELSE {})
                /\ \A i \in later : r.subpats[i - a + 1] = s.subpats[i]
                /\ first # {} =>
                     /\ r.subpats[0].tag = "Seq"
                     /\ DOMAIN r.subpats[0].subpats = first
                     /\ \A i \in first : r.subpats[0].subpats[i] = s.subpats[i]
          /\ is_empty(r) = is_empty(s)
          /\ is_full(r) = is_full(s)

\* C15: a Seq with entries at the indices 0, 1 and 3 was unspecialized by the
\* arity 2 of the pair constructor: 0 and 1 went under index 0, 3 to index 2.
C15_Witness ==
    /\ pc = "unspecialized" /\ ty = "Pair" /\ wit_ctor = "Single"
    /\ sets[1].tag = "Seq" /\ DOMAIN sets[1].subpats = {0, 1, 3}
    /\ ~is_empty(sets[1]) /\ ~is_full(sets[1])
    /\ DOMAIN merged[1].subpats = {0, 2}
    /\ DOMAIN merged[1].subpats[0].subpats = {0, 1}

----------------------------------------------------------------------------
(* Sequences of union, unspecialize and unsplit_or_pat from Empty and Full *)

\* An or-pattern of the two-valued type with n alternatives.
AltPat(n) == Or("Bool", [i \in 1..n |-> IF i = 1 THEN BT ELSE IF i = 2 THEN BF ELSE BWild])

InitCanon ==
    /\ pc = "sets"
    /\ sets \in [1..2 -> {Empty, Full}]
    /\ merged = <<>>
    /\ ty = "Bool"
    /\ arms = <<>>
    /\ matrix = Matrix_empty
    /\ arm_usefulness = <<>>
    /\ witnesses = <<>>
    /\ last_usefulness = new_not_useful("LeaveOutWitness")
    /\ wit_ctor = "Wildcard"
    /\ wit = <<>>
    /\ rebuilt = <<>>
    /\ row = <<>>

\* SubPatSet::unsplit_or_pat on one of the two sets.
CanonUnsplit ==
    /\ Len(merged) < MaxOps
    /\ \E k \in 1..2 : \E alt_count \in 1..MaxAlts : \E alt_id \in 0..(alt_count - 1) :
         LET s == unsplit_or_pat(sets[k], alt_id, alt_count, AltPat(alt_count))
         IN  /\ ~HasBug(s)
             /\ sets' = [sets EXCEPT ![k] = s]
             /\ merged' = Append(merged, s)
    /\ pc' = "unsplit"
    /\ UNCHANGED <<ty, arms, matrix, arm_usefulness, witnesses, last_usefulness,
                   wit_ctor, wit, rebuilt, row>>

\* SubPatSet::unspecialize on one of the two sets.
CanonUnspecialize ==
    /\ Len(merged) < MaxOps
    /\ \E k \in 1..2 : \E arity \in 0..2 :
         LET s == unspecialize(sets[k], arity)
         IN  /\ ~HasBug(s)
             /\ sets' = [sets EXCEPT ![k] = s]
             /\ merged' = Append(merged, s)
    /\ pc' = "unspecialized"
    /\ UNCHANGED <<ty, arms, matrix, arm_usefulness, witnesses, last_usefulness,
                   wit_ctor, wit, rebuilt, row>>

\* SubPatSet::union of one of the two sets with the other.
CanonUnion ==
    /\ Len(merged) < MaxOps
    /\ \E k \in 1..2 :
         LET s == union(sets[k], sets[3 - k])
         IN  /\ ~HasBug(s)
             /\ sets' = [sets EXCEPT ![k] = s]
             /\ merged' = Append(merged, s)
    /\ pc' = "united"
    /\ UNCHANGED <<ty, arms, matrix, arm_usefulness, witnesses, last_usefulness,
                   wit_ctor, wit, rebuilt, row>>

NextCanon == CanonUnsplit \/ CanonUnspecialize \/ CanonUnion

SpecCanon == InitCanon /\ [][NextCanon]_vars

\* Whether a set is in its smallest representation.
Canonical(s) == (is_empty(s) => s = Empty) /\ (is_full(s) => s = Full)

\* C18 as stated: every set produced by a sequence of union, unspecialize and
\* unsplit_or_pat from Empty and Full is the Empty variant if is_empty holds
\* and the Full variant if is_full holds, or-patterns with a single
\* alternative included.
C18_SmallestRepresentation ==
    \A k \in 1..Len(sets) : Canonical(sets[k])

\* C18 for or-patterns of two alternatives or more: a produced set without an
\* Alt node of a single alternative is in its smallest representation.
C18_SmallestUnlessSingleAlt ==
    \A k \in 1..Len(sets) :
       (\A node \in AltNodes(sets[k]) : node.alt_count >= 2) => Canonical(sets[k])

====
